---- MODULE Spec2Model ----
(***************************************************************************)
(* Streaming lip-sync pipeline of godot-openlipsync: LipSyncContext        *)
(* (lip_sync_context.cpp), its AudioProcessor (audio_processor.cpp) and    *)
(* its OnnxModel (onnx_model.cpp), as a state machine.                     *)
(*                                                                         *)
(* Number representation.  A C++ float sample v is held as the integer     *)
(* v * FX (fixed point, FX = 2 * 16000).  A resampler position p (float)   *)
(* is held as the integer p * 16000.  The stereo inputs are small integers *)
(* and the source rates are those whose ratio to 16000 is a dyadic         *)
(* rational (0.5, 1, 3), so every float operation of the resampler is      *)
(* exact and the integers below are the floats of the code.                *)
(*                                                                         *)
(* A Feature Frame is the result of a deterministic floating-point         *)
(* computation (Hann window, FFT, mel filter bank, log, normalisation) on  *)
(* the window buffer.  It is held as the term of that computation: its     *)
(* length n_mels, the window buffer it was computed from and the           *)
(* parameters of the tables used.  Equal terms are equal frames.           *)
(***************************************************************************)
EXTENDS Integers, Sequences, FiniteSets, TLC

VARIABLES
    ctx,      \* the LipSyncContext object, its AudioProcessor and OnnxModel
    last,     \* the last call made on it: operation, arguments, what it returned
    since,    \* what has been delivered and produced since the last reset()
    steps,    \* number of calls made
    twin,     \* a second LipSyncContext and what its last call produced
    phase     \* "single": one pipeline; "lockstep": ctx and twin get the same calls

vars == <<ctx, last, since, steps, twin, phase>>

----------------------------------------------------------------------------
(* Bounds of the model *)

MaxSteps == 4

MaxCfgSteps == 4

MaxPushes == 3

MaxProcCalls == 4

MaxHopCalls == 4

MaxTwinSteps == 5

MaxSetterCalls == 3

MaxMelCalls == 1

MaxFftCalls == 2

MaxOnnxCalls == 4

MaxSliceSteps == 4

----------------------------------------------------------------------------
(* Program constants *)

\* lip_sync_context.h: int target_sample_rate = 16000
TargetSampleRate == 16000

\* lip_sync_context.h: int context_size = 100
DefaultContextSize == 100

\* lip_sync_context.cpp process(): int hop_length = 160 (hardcoded)
SchedulerHop == 160

\* lip_sync_context.cpp process(): int n_mels = 80 (hardcoded)
SchedulerMels == 80

\* audio_processor.h defaults
DefaultSampleRate == 16000

DefaultHopLength == 160

DefaultWindowLength == 400

DefaultFftSize == 1024

DefaultMelBands == 80

DefaultFMin == 50

DefaultFMax == 8000

\* one float unit, as an integer: samples are multiples of 1/FX
FX == 2 * TargetSampleRate

----------------------------------------------------------------------------
(* Sequences *)

\* the function f on 1..n, as the sequence <<f[1], ..., f[n]>>
AsSeq(f) == <<>> \o f

Zeros(n) == AsSeq([i \in 1..n |-> 0])

\* the elements of s from position a (1-based) to the end
From(s, a) == SubSeq(s, a, Len(s))

\* the last k elements of s (all of s when it has fewer)
LastK(s, k) == IF k >= Len(s) THEN s ELSE SubSeq(s, Len(s) - k + 1, Len(s))

Max(a, b) == IF a >= b THEN a ELSE b

\* C++ (int) conversion of a non-integral float, position units: truncation
\* toward zero of p / TargetSampleRate
TruncInt(p) ==
    IF p >= 0 THEN p \div TargetSampleRate
    ELSE -((-p) \div TargetSampleRate)

SizeGreaterThanIntOffByOne(size, n) ==
    IF n < 0 THEN FALSE ELSE size >= n /\ size > 0

\* size_t > int comparison: the int is converted to size_t, so a negative
\* value becomes 2^64 + value, which no container size exceeds
SizeGreaterThanInt(size, n) ==
    IF n < 0 THEN FALSE ELSE size > n

\* size_t >= int comparison, same conversion
SizeAtLeastInt(size, n) ==
    IF n < 0 THEN FALSE ELSE size >= n

----------------------------------------------------------------------------
(* AudioProcessor *)

\* a PackedFloat32Array of size 0, as process_frame returns it on rejection
EmptyFrame == [n |-> 0, win |-> <<>>, cfg |-> <<>>]

\* init_window: window and window_buffer are resized to window_length; the
\* existing elements of window_buffer are kept, new ones are 0
InitWindow(P) ==
    [P EXCEPT
        !.window = [size |-> P.window_length],
        !.window_buffer =
            AsSeq([i \in 1..P.window_length |->
                IF i <= Len(P.window_buffer) THEN P.window_buffer[i] ELSE 0])]

\* init_fft: tables sized from n_fft
InitFft(P) ==
    [P EXCEPT
        !.bit_reverse_table = [size |-> P.n_fft],
        !.trig_tables = [size |-> P.n_fft \div 2],
        !.fft_input = [size |-> P.n_fft]]

\* std::complex<float>, for values that are exact
Complex(re, im) == [re |-> re, im |-> im]

CAdd(u, v) == Complex(u.re + v.re, u.im + v.im)

CSub(u, v) == Complex(u.re - v.re, u.im - v.im)

CMul(u, v) == Complex(u.re * v.re - u.im * v.im, u.re * v.im + u.im * v.re)

\* exp(-2 pi i turns / 4): the points of the unit circle that floats hold
\* to rounding, a quarter turn apart
QuarterTurn(turns) ==
    CASE turns % 4 = 0 -> Complex(1, 0)
      [] turns % 4 = 1 -> Complex(0, -1)
      [] turns % 4 = 2 -> Complex(-1, 0)
      [] OTHER -> Complex(0, 1)

RECURSIVE FftLevels(_)
\* init_fft: while (temp > 1) { temp >>= 1; levels++; }
FftLevels(temp) == IF temp > 1 THEN 1 + FftLevels(temp \div 2) ELSE 0

RECURSIVE BitReverse(_, _, _)
\* init_fft: rev = (rev << 1) | (curr & 1); curr >>= 1, levels times
BitReverse(rev, curr, levels) ==
    IF levels = 0 THEN rev
    ELSE BitReverse(2 * rev + (curr % 2), curr \div 2, levels - 1)

\* init_fft: bit_reverse_table; entry i of the code is element i + 1
BitReverseTable(n_fft) ==
    AsSeq([i1 \in 1..n_fft |-> BitReverse(0, i1 - 1, FftLevels(n_fft))])

\* init_fft: trig_tables[i] = exp(-2 pi i / n_fft), for the sizes whose
\* angles are whole quarter turns
TrigTables(n_fft) ==
    AsSeq([i1 \in 1..(n_fft \div 2) |->
              QuarterTurn((4 * (i1 - 1)) \div n_fft)])

\* std::swap(data[a], data[b]), 0-based
SwapAt(data, a, b) ==
    [data EXCEPT ![a + 1] = data[b + 1], ![b + 1] = data[a + 1]]

RECURSIVE BitReversePermute(_, _, _)
\* perform_fft, bit-reverse permutation, from index i on
BitReversePermute(data, table, i) ==
    IF i >= Len(data) THEN data
    ELSE BitReversePermute(
             IF i < table[i + 1] THEN SwapAt(data, i, table[i + 1]) ELSE data,
             table, i + 1)

RECURSIVE Butterflies(_, _, _, _, _)
\* perform_fft, butterfly operations: the three nested loops, from stage
\* len, block i, position j on
Butterflies(data, trig, len, i, j) ==
    LET n == Len(data)
        half_len == len \div 2
        step == n \div len
    IN  IF len > n THEN data
        ELSE IF i >= n THEN Butterflies(data, trig, 2 * len, 0, 0)
        ELSE IF j >= half_len THEN Butterflies(data, trig, len, i + len, 0)
        ELSE LET u == data[i + j + 1]
                 v == CMul(data[i + j + half_len + 1], trig[j * step + 1])
             IN  Butterflies(
                     [data EXCEPT ![i + j + 1] = CAdd(u, v),
                                  ![i + j + half_len + 1] = CSub(u, v)],
                     trig, len, i, j + 1)

PerformFftNoBitReverse(data, table, trig) == Butterflies(data, trig, 2, 0, 0)

\* AudioProcessor::perform_fft, with the tables init_fft left
PerformFft(data, table, trig) ==
    Butterflies(BitReversePermute(data, table, 0), trig, 2, 0, 0)

\* init_mel_filter_bank: n_mels * (n_fft/2 + 1) weights from the current config
InitMelFilterBank(P) ==
    [P EXCEPT
        !.mel_filter_bank =
            [size |-> P.n_mels * (P.n_fft \div 2 + 1),
             sample_rate |-> P.sample_rate, n_fft |-> P.n_fft,
             n_mels |-> P.n_mels, f_min |-> P.f_min, f_max |-> P.f_max]]

\* IEEE float division a / b of two exact values, as a fraction: 0/0 is
\* NaN, x/0 is an infinity (den 0, num the sign)
FloatDiv(a, b) ==
    IF b = 0
    THEN [nan |-> a = 0, num |-> IF a > 0 THEN 1 ELSE IF a < 0 THEN -1 ELSE 0,
          den |-> 0]
    ELSE IF b > 0 THEN [nan |-> FALSE, num |-> a, den |-> b]
    ELSE [nan |-> FALSE, num |-> -a, den |-> -b]

\* float weight = 0.0f
ZeroWeight == [nan |-> FALSE, num |-> 0, den |-> 1]

\* init_mel_filter_bank: the weight of spectrum bin j in the filter with bin
\* points left, center, right.  The bin points are held in halves of a
\* bin, so bin j is at 2 * j.
MelWeight(j, left, center, right) ==
    IF 2 * j >= left /\ 2 * j <= center
    THEN FloatDiv(2 * j - left, center - left)
    ELSE IF 2 * j > center /\ 2 * j <= right
    THEN FloatDiv(right - 2 * j, right - center)
    ELSE ZeroWeight

\* init_mel_filter_bank: one filter's row of num_spectra weights
MelFilterRow(left, center, right, num_spectra) ==
    AsSeq([j1 \in 1..num_spectra |-> MelWeight(j1 - 1, left, center, right)])

\* AudioProcessor::reset: overlap buffer zero-filled, length
\* max(0, window_length - hop_length)
ProcReset(P) ==
    [P EXCEPT
        !.previous_samples = Zeros(Max(0, P.window_length - P.hop_length))]

SetSampleRate(P, r) == InitMelFilterBank([P EXCEPT !.sample_rate = r])

SetFftSize(P, n) == InitMelFilterBank(InitFft([P EXCEPT !.n_fft = n]))

SetHopLength(P, h) == ProcReset([P EXCEPT !.hop_length = h])

SetWindowLength(P, w) == ProcReset(InitWindow([P EXCEPT !.window_length = w]))

SetMelBands(P, m) == InitMelFilterBank([P EXCEPT !.n_mels = m])

SetFrequencyRange(P, lo, hi) ==
    InitMelFilterBank([P EXCEPT !.f_min = lo, !.f_max = hi])

\* AudioProcessor::AudioProcessor: member defaults, then the init_* calls
AudioProcessorNew ==
    ProcReset(InitMelFilterBank(InitFft(InitWindow(
        [sample_rate |-> DefaultSampleRate,
         hop_length |-> DefaultHopLength,
         window_length |-> DefaultWindowLength,
         n_fft |-> DefaultFftSize,
         n_mels |-> DefaultMelBands,
         f_min |-> DefaultFMin,
         f_max |-> DefaultFMax,
         window |-> [size |-> 0],
         window_buffer |-> <<>>,
         previous_samples |-> <<>>,
         bit_reverse_table |-> [size |-> 0],
         trig_tables |-> [size |-> 0],
         fft_input |-> [size |-> 0],
         mel_filter_bank |-> [size |-> 0, sample_rate |-> 0, n_fft |-> 0,
                              n_mels |-> 0, f_min |-> 0, f_max |-> 0]]))))

\* the configuration values of a processor and the tables derived from them
ProcConfig(P) ==
    [sample_rate |-> P.sample_rate, hop_length |-> P.hop_length,
     window_length |-> P.window_length, n_fft |-> P.n_fft,
     n_mels |-> P.n_mels, f_min |-> P.f_min, f_max |-> P.f_max,
     window |-> P.window, bit_reverse_table |-> P.bit_reverse_table,
     trig_tables |-> P.trig_tables, fft_input |-> P.fft_input,
     mel_filter_bank |-> P.mel_filter_bank]

\* process_frame, step 1: the window buffer after the overlap and the new
\* samples are copied in (positions past window_length are not written)
FillWindowBuffer(P, samples) ==
    LET overlap_len == Len(P.previous_samples)
    IN  AsSeq([i \in 1..Len(P.window_buffer) |->
            IF i <= overlap_len THEN P.previous_samples[i]
            ELSE IF i - overlap_len <= P.hop_length /\ i <= P.window_length
                 THEN samples[i - overlap_len]
                 ELSE P.window_buffer[i]])

NextOverlapFromStart(P, wb) ==
    AsSeq([i \in 1..Len(P.previous_samples) |-> wb[i]])

\* process_frame, "Update previous_samples for NEXT call": the slice of the
\* window buffer starting at hop_length, zero past its end
NextOverlap(P, wb) ==
    AsSeq([i \in 1..Len(P.previous_samples) |->
        IF P.hop_length + (i - 1) < P.window_length
        THEN wb[P.hop_length + i]
        ELSE 0])

\* process_frame, steps 2-6: the n_mels normalised log-mel values computed
\* from the window buffer with the current tables
MelFeatures(P, wb) ==
    IF P.n_mels <= 0 THEN EmptyFrame
    ELSE [n |-> P.n_mels, win |-> wb,
          cfg |-> <<P.window.size, P.fft_input.size, P.mel_filter_bank>>]

ProcessFrameBody(P, samples) ==
    LET wb == FillWindowBuffer(P, samples)
    IN  [proc |-> [P EXCEPT !.window_buffer = wb,
                            !.previous_samples = NextOverlap(P, wb)],
         out |-> MelFeatures(P, wb)]

ProcessFrameRejectLate(P, samples) ==
    IF Len(samples) # P.hop_length
    THEN [proc |-> [P EXCEPT !.previous_samples =
                        Zeros(Len(P.previous_samples))],
          out |-> EmptyFrame]
    ELSE ProcessFrameBody(P, samples)

\* AudioProcessor::process_frame
ProcessFrame(P, samples) ==
    IF Len(samples) # P.hop_length
    THEN [proc |-> P, out |-> EmptyFrame]
    ELSE ProcessFrameBody(P, samples)

----------------------------------------------------------------------------
(* OnnxModel *)

\* Ort::Session *session = nullptr
NoSession == [open |-> FALSE, input_shape |-> <<>>]

\* The model files of the environment: a path that cannot be loaded, a model
\* with a dynamic time dimension, a model with a fixed input shape, and a
\* model whose batch and time dimensions are both dynamic.
ModelPaths == {"missing.onnx", "tcn.onnx", "fixed.onnx", "batched.onnx"}

Loadable(path) == path # "missing.onnx"

InputShapeOf(path) ==
    IF path = "tcn.onnx" THEN <<1, -1, SchedulerMels>>
    ELSE IF path = "batched.onnx" THEN <<-1, -1, SchedulerMels>>
    ELSE <<1, 2, SchedulerMels>>

\* OnnxModel::load_model: the old session is deleted first; the new one is
\* created unless Ort throws
OnnxLoadModel(M, path) ==
    IF Loadable(path)
    THEN [model |-> [M EXCEPT !.session =
                        [open |-> TRUE, input_shape |-> InputShapeOf(path)]],
          success |-> TRUE]
    ELSE [model |-> [M EXCEPT !.session = NoSession], success |-> FALSE]

RECURSIVE KnownSize(_, _)
\* run_inference: product of the statically known (non-negative) dimensions
KnownSize(shape, i) ==
    IF i > Len(shape) THEN 1
    ELSE (IF shape[i] < 0 THEN 1 ELSE shape[i]) * KnownSize(shape, i + 1)

HasDynamicDim(shape) == \E i \in 1..Len(shape) : shape[i] < 0

\* number of elements of a flattened tensor
TensorSize(tensor) == tensor.n_frames * tensor.n_mels

ShapeAcceptsDivisible(shape, size) == size % KnownSize(shape, 1) = 0

\* run_inference: whether the element count fits the model's input shape
ShapeAccepts(shape, size) ==
    IF HasDynamicDim(shape)
    THEN size % KnownSize(shape, 1) = 0
    ELSE size = KnownSize(shape, 1)

\* run_inference, "Resolve dynamic shapes": the shape handed to the runtime
\* for an accepted input of size elements; the first dynamic dimension
\* takes size / known_size, any further one is set to 1
ResolvedShape(shape, size) ==
    AsSeq([i \in 1..Len(shape) |->
        IF shape[i] >= 0 THEN shape[i]
        ELSE IF \E j \in 1..(i - 1) : shape[j] < 0 THEN 1
        ELSE size \div KnownSize(shape, 1)])

\* a PackedFloat32Array of size elements, handed to run_inference directly
FlatInput(size) == [n_frames |-> size, n_mels |-> 1, rows |-> <<>>]

\* What session->Run does with an accepted tensor: it throws, or it returns
\* some number of output elements.
RunOutcomes == {"throw", "out0", "out2", "out3", "out5"}

OutputSize(outcome) ==
    CASE outcome = "out2" -> 2
      [] outcome = "out3" -> 3
      [] outcome = "out5" -> 5
      [] OTHER -> 0

RunInferenceNoSessionCheck(M, tensor, outcome) ==
    [out |-> AsSeq([k \in 1..OutputSize(outcome) |-> k]), ran |-> TRUE]

\* OnnxModel::run_inference.  out: the returned array (element k of the
\* model's output is held as k); ran: whether session->Run was executed.
RunInference(M, tensor, outcome) ==
    IF ~M.session.open THEN [out |-> <<>>, ran |-> FALSE]
    ELSE IF ~ShapeAccepts(M.session.input_shape, TensorSize(tensor))
    THEN [out |-> <<>>, ran |-> FALSE]
    ELSE [out |-> AsSeq([k \in 1..OutputSize(outcome) |-> k]), ran |-> TRUE]

----------------------------------------------------------------------------
(* LipSyncContext *)

\* LipSyncContext::LipSyncContext: member defaults, the processor
\* instantiated and configured, no model object yet
LipSyncContextNew ==
    [processor |->
        SetMelBands(SetWindowLength(SetHopLength(SetSampleRate(
            AudioProcessorNew, 16000), 160), 400), 80),
     model |-> [is_null |-> TRUE, session |-> NoSession],
     audio_buffer |-> <<>>,
     feature_buffer |-> <<>>,
     context_size |-> DefaultContextSize,
     resample_fraction |-> 0]

ResetKeepsFeatures(C) ==
    [C EXCEPT !.audio_buffer = <<>>,
              !.processor = ProcReset(C.processor),
              !.resample_fraction = 0]

\* LipSyncContext::reset
Reset(C) ==
    [C EXCEPT !.audio_buffer = <<>>,
              !.feature_buffer = <<>>,
              !.processor = ProcReset(C.processor),
              !.resample_fraction = 0]

LoadModelNoReset(C, path) ==
    LET r == OnnxLoadModel([C.model EXCEPT !.is_null = FALSE], path)
    IN  [ctx |-> [C EXCEPT !.model = r.model], success |-> r.success]

\* LipSyncContext::load_model: the model object is instantiated on first
\* use; a successful load resets the pipeline
LoadModel(C, path) ==
    LET r == OnnxLoadModel([C.model EXCEPT !.is_null = FALSE], path)
        C1 == [C EXCEPT !.model = r.model]
    IN  [ctx |-> IF r.success THEN Reset(C1) ELSE C1, success |-> r.success]

RECURSIVE TrimFront(_, _)
\* set_context_size: while (feature_buffer.size() > context_size) pop_front
TrimFront(fb, size) ==
    IF SizeGreaterThanInt(Len(fb), size) THEN TrimFront(Tail(fb), size) ELSE fb

SetContextSizeNoTrim(C, p_frames) == [C EXCEPT !.context_size = p_frames]

\* LipSyncContext::set_context_size
SetContextSize(C, p_frames) ==
    [C EXCEPT !.context_size = p_frames,
              !.feature_buffer = TrimFront(C.feature_buffer, p_frames)]

\* the mono downmix of process(): (x + y) * 0.5f, in fixed point
Downmix(block) ==
    AsSeq([i \in 1..Len(block) |->
              (block[i][1] + block[i][2]) * (FX \div 2)])

\* input[i] of _resample_and_push (i from 0); a read outside the block is a
\* read outside the mono_input vector and yields the value g
InputAt(input, i, g) ==
    IF i >= 0 /\ i < Len(input) THEN input[i + 1] ELSE g

\* whether the interpolation at position pos reads outside the block
ReadsOutside(input, pos) ==
    TruncInt(pos) < 0 \/ TruncInt(pos) + 1 > Len(input) - 1

\* the number of iterations of the while loop of _resample_and_push: the
\* cursor takes the values pos, pos + ratio, ... while it is < count - 1
\* (pos and ratio in units of 1/TargetSampleRate; ratio > 0)
LoopIterations(pos, count, ratio) ==
    LET limit == (count - 1) * TargetSampleRate
    IN  IF ~(pos < limit) THEN 0
        ELSE (limit - pos + ratio - 1) \div ratio

\* one iteration of the loop at cursor pos: the interpolated sample
Lerp(input, pos, g) ==
    LET idx == TruncInt(pos)
        t == pos - idx * TargetSampleRate
        s0 == InputAt(input, idx, g)
        s1 == InputAt(input, idx + 1, g)
    IN  s0 + ((s1 - s0) * t) \div TargetSampleRate

\* the while loop of _resample_and_push: the samples pushed, in order (the
\* k-th iteration runs at cursor pos + (k - 1) * ratio, the additions being
\* exact), the final cursor, and whether a read fell outside the block
ResampleLoop(input, pos, ratio, g) ==
    LET n == LoopIterations(pos, Len(input), ratio)
    IN  [pos |-> pos + n * ratio,
         out |-> AsSeq([k \in 1..n |->
                           Lerp(input, pos + (k - 1) * ratio, g)]),
         oob |-> \E k \in 1..n :
                    ReadsOutside(input, pos + (k - 1) * ratio)]

\* the phase carried to the next chunk: cursor - count, plus ratio when that
\* is negative
CarryFraction(pos, count, ratio) ==
    LET f == pos - count * TargetSampleRate
    IN  IF f < 0 THEN f + ratio ELSE f

ResampledNoEmptyCheck(C, input, source_rate, g) ==
    IF source_rate # TargetSampleRate
    THEN LET r == ResampleLoop(input, C.resample_fraction, source_rate, g)
         IN  [out |-> r.out,
              fraction |-> CarryFraction(r.pos, Len(input), source_rate),
              oob |-> r.oob]
    ELSE [out |-> input, fraction |-> C.resample_fraction, oob |-> FALSE]

\* _resample_and_push on an input block: the samples it appends, the new
\* phase, and whether it read outside the block
Resampled(C, input, source_rate, g) ==
    IF Len(input) = 0
    THEN [out |-> <<>>, fraction |-> C.resample_fraction, oob |-> FALSE]
    ELSE IF source_rate # TargetSampleRate
    THEN LET r == ResampleLoop(input, C.resample_fraction, source_rate, g)
         IN  [out |-> r.out,
              fraction |-> CarryFraction(r.pos, Len(input), source_rate),
              oob |-> r.oob]
    ELSE [out |-> input, fraction |-> C.resample_fraction, oob |-> FALSE]

\* LipSyncContext::_resample_and_push
ResampleAndPush(C, input, source_rate, g) ==
    LET r == Resampled(C, input, source_rate, g)
    IN  [C EXCEPT !.audio_buffer = C.audio_buffer \o r.out,
                  !.resample_fraction = r.fraction]

\* whether _resample_and_push on this block reads outside the block
ResampleReadsOutside(C, input, source_rate) ==
    Resampled(C, input, source_rate, 0).oob

RECURSIVE HopLoopStrict(_, _)
RECURSIVE HopLoop(_, _)
HopLoopStrict(C, acc) ==
    IF ~(Len(C.audio_buffer) > SchedulerHop)
    THEN [ctx |-> C, frames |-> acc.frames, hops |-> acc.hops]
    ELSE LET chunk == SubSeq(C.audio_buffer, 1, SchedulerHop)
             r == ProcessFrame(C.processor, chunk)
             pushed == IF r.out.n > 0
                       THEN Append(C.feature_buffer, r.out)
                       ELSE C.feature_buffer
             kept == IF SizeGreaterThanInt(Len(pushed), C.context_size)
                     THEN Tail(pushed) ELSE pushed
         IN  HopLoopStrict([C EXCEPT !.processor = r.proc,
                                     !.feature_buffer = kept,
                                     !.audio_buffer =
                                         From(C.audio_buffer, SchedulerHop + 1)],
                           [frames |-> IF r.out.n > 0
                                       THEN Append(acc.frames, r.out)
                                       ELSE acc.frames,
                            hops |-> acc.hops + 1])

\* process(), "3. Process Hops": while the accumulation buffer holds
\* hop_length (160, hardcoded) samples, the first 160 go through
\* process_frame, a non-empty result is appended to feature_buffer, the 160
\* samples are erased, and one frame is evicted when the size exceeds
\* context_size.  acc.frames: the frames appended so far in this call;
\* acc.hops: the slices consumed so far.
HopLoop(C, acc) ==
    IF ~SizeAtLeastInt(Len(C.audio_buffer), SchedulerHop)
    THEN [ctx |-> C, frames |-> acc.frames, hops |-> acc.hops]
    ELSE LET chunk == SubSeq(C.audio_buffer, 1, SchedulerHop)
             r == ProcessFrame(C.processor, chunk)
             pushed == IF r.out.n > 0
                       THEN Append(C.feature_buffer, r.out)
                       ELSE C.feature_buffer
             kept == IF SizeGreaterThanInt(Len(pushed), C.context_size)
                     THEN Tail(pushed) ELSE pushed
         IN  HopLoop([C EXCEPT !.processor = r.proc,
                               !.feature_buffer = kept,
                               !.audio_buffer =
                                   From(C.audio_buffer, SchedulerHop + 1)],
                     [frames |-> IF r.out.n > 0
                                 THEN Append(acc.frames, r.out)
                                 ELSE acc.frames,
                      hops |-> acc.hops + 1])

\* process(), "4. Run Inference": the flat input, n_frames rows of n_mels
\* (80, hardcoded) values, row i being frame[0..79] of feature_buffer[i].
\* A frame shorter than 80 is read past its end: those values are junk.
Flatten(fb, junk) ==
    [n_frames |-> Len(fb), n_mels |-> SchedulerMels,
     rows |-> AsSeq([i \in 1..Len(fb) |->
                [frame |-> fb[i],
                 past_end |-> IF fb[i].n < SchedulerMels THEN junk ELSE 0]])]

LastSliceFromEnd(output, n_frames) ==
    LastK(output, Len(output) \div n_frames)

\* process(): the last timestep's slice of the model's output
LastSlice(output, n_frames) ==
    LET num_visemes == Len(output) \div n_frames
        start_idx == (n_frames - 1) * num_visemes
    IN  AsSeq([i \in 1..num_visemes |-> output[start_idx + i]])

\* what process() returns from the model's answer to the flat input
Prediction(M, tensor, outcome) ==
    LET output == RunInference(M, tensor, outcome).out
    IN  IF Len(output) > 0 THEN LastSlice(output, tensor.n_frames) ELSE <<>>

\* no prediction, whatever session->Run would do
Absent == [o \in RunOutcomes |-> <<>>]

NeverRan == [o \in RunOutcomes |-> FALSE]

\* what a call returns when it touches nothing
NoEffect(C) ==
    [ctx |-> C, ret |-> Absent, frames |-> <<>>, hops |-> 0, tensors |-> <<>>,
     ran |-> NeverRan, pushed |-> 0, oob |-> FALSE]

ProcessBodyInfersOnWindow(C, block, source_rate, g, junk) ==
    LET mono_input == Downmix(block)
        rs == Resampled(C, mono_input, source_rate, g)
        C1 == ResampleAndPush(C, mono_input, source_rate, g)
        h == HopLoop(C1, [frames |-> <<>>, hops |-> 0])
        infer == Len(h.ctx.feature_buffer) > 0
        tensor == Flatten(h.ctx.feature_buffer, junk)
    IN  [ctx |-> h.ctx,
         ret |-> IF infer
                 THEN [o \in RunOutcomes |-> Prediction(C.model, tensor, o)]
                 ELSE Absent,
         frames |-> h.frames,
         hops |-> h.hops,
         tensors |-> IF infer THEN <<tensor>> ELSE <<>>,
         ran |-> IF infer
                 THEN [o \in RunOutcomes |->
                          RunInference(C.model, tensor, o).ran]
                 ELSE NeverRan,
         pushed |-> Len(rs.out),
         oob |-> rs.oob]

\* process() after the model and size checks.  ret and ran are given for
\* each outcome of session->Run: the array returned, and whether the model
\* was executed.
ProcessBody(C, block, source_rate, g, junk) ==
    LET mono_input == Downmix(block)
        rs == Resampled(C, mono_input, source_rate, g)
        C1 == ResampleAndPush(C, mono_input, source_rate, g)
        h == HopLoop(C1, [frames |-> <<>>, hops |-> 0])
        new_features_added == Len(h.frames) > 0
        infer == new_features_added /\ Len(h.ctx.feature_buffer) > 0
        tensor == Flatten(h.ctx.feature_buffer, junk)
    IN  [ctx |-> h.ctx,
         ret |-> IF infer
                 THEN [o \in RunOutcomes |-> Prediction(C.model, tensor, o)]
                 ELSE Absent,
         frames |-> h.frames,
         hops |-> h.hops,
         tensors |-> IF infer THEN <<tensor>> ELSE <<>>,
         ran |-> IF infer
                 THEN [o \in RunOutcomes |->
                          RunInference(C.model, tensor, o).ran]
                 ELSE NeverRan,
         pushed |-> Len(rs.out),
         oob |-> rs.oob]

\* LipSyncContext::process
Process(C, block, source_rate, g, junk) ==
    IF C.model.is_null THEN NoEffect(C)
    ELSE IF Len(block) = 0 THEN NoEffect(C)
    ELSE ProcessBody(C, block, source_rate, g, junk)

----------------------------------------------------------------------------
(* Inputs *)

\* Test signals: stereo sample i (from 1) of signal sig.  Signal 0 is
\* silence; the others are ramps with different left and right channels.
StereoSample(sig, i) == <<sig * (i % 3), sig * ((i + 1) % 2)>>

StereoBlock(sig, count) == AsSeq([i \in 1..count |-> StereoSample(sig, i)])

\* source rates: half the target rate, the target rate, three times it
SourceRates == {8000, 16000, 48000}

\* what a read outside the block can yield (fixed point)
Garbage == {0, 2 * FX}

\* blocks <<count, source rate>> of the full-API specification: one sample
\* to be upsampled, one hop and a part, two hops
ApiBlocks == {<<1, 8000>>, <<200, 16000>>, <<320, 16000>>}

ContextSizes == {-1, 0, 1, 2}

----------------------------------------------------------------------------
(* State *)

\* the record of a call; outcome: what session->Run did, if it was reached
Call(op, arg, r, outcome, pre) ==
    [op |-> op, arg |-> arg, ret |-> r.ret[outcome], frames |-> r.frames,
     hops |-> r.hops, tensors |-> r.tensors, ran |-> r.ran[outcome],
     pushed |-> r.pushed, oob |-> r.oob, outcome |-> outcome,
     pre_audio |-> Len(pre.audio_buffer),
     pre_features |-> Len(pre.feature_buffer),
     pre_overlap_zero |->
         pre.processor.previous_samples =
             Zeros(Len(pre.processor.previous_samples)),
     pre_fraction |-> pre.resample_fraction,
     pre_null |-> pre.model.is_null,
     pre_open |-> pre.model.session.open]

NoArg == [count |-> 0, rate |-> 0, sig |-> 0, k |-> 0, path |-> ""]

\* nothing delivered yet
Fresh == [samples |-> 0, frames |-> 0, pushed |-> 0, rates |-> {},
          unloaded |-> FALSE, made |-> <<>>, resized |-> FALSE,
          fed |-> <<>>]

\* since, after a process call r on a block of count samples at rate
Delivered(C, count, rate, r) ==
    [samples |-> since.samples + count,
     frames |-> since.frames + Len(r.frames),
     pushed |-> since.pushed + r.pushed,
     rates |-> since.rates \cup {rate},
     unloaded |-> since.unloaded \/ ~C.model.session.open,
     made |-> since.made \o r.frames,
     resized |-> since.resized,
     fed |-> since.fed]

Init ==
    /\ ctx = LipSyncContextNew
    /\ last = Call("new", NoArg, NoEffect(LipSyncContextNew), "out0",
                   LipSyncContextNew)
    /\ since = Fresh
    /\ steps = 0
    /\ twin = [ctx |-> LipSyncContextNew, frames |-> <<>>, tensors |-> <<>>]
    /\ phase = "single"

\* the garbage values a process call on block can meet
GarbageFor(C, block, rate) ==
    IF ~C.model.is_null /\ ResampleReadsOutside(C, Downmix(block), rate)
    THEN Garbage ELSE {0}

\* the junk values flattening can meet
JunkFor(C) ==
    IF C.processor.n_mels < SchedulerMels
       \/ \E i \in 1..Len(C.feature_buffer) :
              C.feature_buffer[i].n < SchedulerMels
    THEN Garbage ELSE {0}

\* the outcomes of session->Run that a call r can meet
OutcomesFor(r, outcomes) ==
    IF \E o \in outcomes : r.ran[o] THEN outcomes ELSE {"out0"}

\* process(audio_data, sample_rate)
DoProcess(sigs, blocks, outcomes, bound) ==
    /\ phase = "single"
    /\ steps < bound
    /\ \E sig \in sigs, b \in blocks :
         LET block == StereoBlock(sig, b[1])
         IN  \E g \in GarbageFor(ctx, block, b[2]), junk \in JunkFor(ctx) :
               LET r == Process(ctx, block, b[2], g, junk)
               IN  /\ ctx' = r.ctx
                   /\ since' = Delivered(ctx, b[1], b[2], r)
                   /\ \E outcome \in OutcomesFor(r, outcomes) :
                        last' = Call("process",
                                     [NoArg EXCEPT !.count = b[1],
                                                   !.rate = b[2],
                                                   !.sig = sig],
                                     r, outcome, ctx)
    /\ steps' = steps + 1
    /\ UNCHANGED <<twin, phase>>

\* set_context_size(frames)
DoSetContextSize(bound) ==
    /\ phase = "single"
    /\ steps < bound
    /\ \E k \in ContextSizes :
         /\ ctx' = SetContextSize(ctx, k)
         /\ last' = Call("set_context_size", [NoArg EXCEPT !.k = k],
                         NoEffect(ctx), "out0", ctx)
    /\ since' = [since EXCEPT !.resized = TRUE]
    /\ steps' = steps + 1
    /\ UNCHANGED <<twin, phase>>

\* reset()
DoReset(bound) ==
    /\ phase = "single"
    /\ steps < bound
    /\ ctx' = Reset(ctx)
    /\ last' = Call("reset", NoArg, NoEffect(ctx), "out0", ctx)
    /\ since' = Fresh
    /\ steps' = steps + 1
    /\ UNCHANGED <<twin, phase>>

\* load_model(path)
DoLoadModel(paths, bound) ==
    /\ phase = "single"
    /\ steps < bound
    /\ \E path \in paths :
         LET r == LoadModel(ctx, path)
         IN  /\ ctx' = r.ctx
             /\ last' = [Call("load_model", [NoArg EXCEPT !.path = path],
                              NoEffect(ctx), "out0", ctx)
                            EXCEPT !.ret = <<r.success>>]
             /\ since' = IF r.success THEN Fresh ELSE since
    /\ steps' = steps + 1
    /\ UNCHANGED <<twin, phase>>

\* the outcomes of session->Run in the full-API specification
ApiOutcomes == {"throw", "out2"}

ApiProcess == DoProcess({1}, ApiBlocks, ApiOutcomes, MaxSteps)

ApiSetContextSize == DoSetContextSize(MaxSteps)

ApiReset == DoReset(MaxSteps)

ApiLoadModel == DoLoadModel({"missing.onnx", "tcn.onnx"}, MaxSteps)

\* any sequence of process / set_context_size / reset / load_model calls
Next == ApiProcess \/ ApiSetContextSize \/ ApiReset \/ ApiLoadModel

Spec == Init /\ [][Next]_vars

----------------------------------------------------------------------------
(* The API with the processor's setters, reached through get_processor() *)

\* a setter call on the processor: <<name, argument, second argument>>
SetterCalls ==
    {<<"set_hop_length", 80, 0>>, <<"set_window_length", 100, 0>>,
     <<"set_mel_bands", 40, 0>>, <<"set_fft_size", 512, 0>>,
     <<"set_sample_rate", 8000, 0>>, <<"set_frequency_range", 0, 4000>>}

\* the AudioProcessor setter named by call
ApplySetter(P, call) ==
    CASE call[1] = "set_hop_length" -> SetHopLength(P, call[2])
      [] call[1] = "set_window_length" -> SetWindowLength(P, call[2])
      [] call[1] = "set_mel_bands" -> SetMelBands(P, call[2])
      [] call[1] = "set_fft_size" -> SetFftSize(P, call[2])
      [] call[1] = "set_sample_rate" -> SetSampleRate(P, call[2])
      [] OTHER -> SetFrequencyRange(P, call[2], call[3])

\* get_processor()->set_...(value)
DoConfigure(calls, bound) ==
    /\ phase = "single"
    /\ steps < bound
    /\ \E call \in calls :
         /\ ctx' = [ctx EXCEPT !.processor = ApplySetter(ctx.processor, call)]
         /\ last' = Call(call[1], [NoArg EXCEPT !.k = call[2]],
                         NoEffect(ctx), "out0", ctx)
    /\ steps' = steps + 1
    /\ UNCHANGED <<since, twin, phase>>

\* one block that leaves audio, frames, overlap and phase behind
CfgBlocks == {<<101, 8000>>}

CfgProcess == DoProcess({1}, CfgBlocks, {"out2"}, MaxCfgSteps)

CfgReset == DoReset(MaxCfgSteps)

CfgLoadModel == DoLoadModel({"tcn.onnx"}, MaxCfgSteps)

CfgSetContextSize == DoSetContextSize(MaxCfgSteps)

CfgConfigure == DoConfigure(SetterCalls, MaxCfgSteps)

NextCfg ==
    \/ CfgProcess \/ CfgReset \/ CfgLoadModel \/ CfgSetContextSize
    \/ CfgConfigure

SpecCfg == Init /\ [][NextCfg]_vars

----------------------------------------------------------------------------
(* The resampler alone: _resample_and_push applied to the context *)

\* block sizes, with the empty block
PushSizes == {0, 1, 2, 4}

\* _resample_and_push(input, count, source_rate)
PushBlock ==
    /\ phase = "single"
    /\ steps < MaxPushes
    /\ \E sig \in {1}, count \in PushSizes, rate \in SourceRates :
         LET input == Downmix(StereoBlock(sig, count))
         IN  \E g \in IF ResampleReadsOutside(ctx, input, rate)
                      THEN Garbage ELSE {0} :
               LET rs == Resampled(ctx, input, rate, g)
                   r == [NoEffect(ctx) EXCEPT !.pushed = Len(rs.out),
                                              !.oob = rs.oob]
               IN  /\ ctx' = ResampleAndPush(ctx, input, rate, g)
                   /\ last' = Call("_resample_and_push",
                                   [NoArg EXCEPT !.count = count,
                                                 !.rate = rate, !.sig = sig],
                                   r, "out0", ctx)
                   /\ since' = [since EXCEPT
                                   !.samples = @ + count,
                                   !.pushed = @ + Len(rs.out),
                                   !.rates = @ \cup {rate}]
    /\ steps' = steps + 1
    /\ UNCHANGED <<twin, phase>>

PushReset == DoReset(MaxPushes)

NextResample == PushBlock \/ PushReset

SpecResample == Init /\ [][NextResample]_vars

----------------------------------------------------------------------------
(* The hop cadence: audio at the target rate, in blocks around a hop *)

HopBlocks ==
    {<<1, 16000>>, <<159, 16000>>, <<160, 16000>>, <<161, 16000>>,
     <<320, 16000>>}

HopProcess == DoProcess({1}, HopBlocks, {"throw", "out2"}, MaxHopCalls)

HopLoadModel == DoLoadModel({"tcn.onnx"}, MaxHopCalls)

HopReset == DoReset(MaxHopCalls)

NextHop == HopProcess \/ HopLoadModel \/ HopReset

SpecHop == Init /\ [][NextHop]_vars

----------------------------------------------------------------------------
(* The AudioProcessor alone, called through get_processor() *)

ProcHopLengths == {2, 3}

ProcWindowLengths == {4}

\* sizes of the blocks handed to process_frame
FrameSizes == {2, 3, 160}

\* a call on the processor that returns nothing
ProcCall(op, k, P1) ==
    /\ ctx' = [ctx EXCEPT !.processor = P1]
    /\ last' = Call(op, [NoArg EXCEPT !.k = k], NoEffect(ctx), "out0", ctx)

\* get_processor()->set_hop_length(length)
ProcSetHopLength ==
    /\ phase = "single"
    /\ steps < MaxProcCalls
    /\ \E h \in ProcHopLengths :
         ProcCall("set_hop_length", h, SetHopLength(ctx.processor, h))
    /\ steps' = steps + 1
    /\ since' = Fresh
    /\ UNCHANGED <<twin, phase>>

\* get_processor()->set_window_length(length)
ProcSetWindowLength ==
    /\ phase = "single"
    /\ steps < MaxProcCalls
    /\ \E w \in ProcWindowLengths :
         ProcCall("set_window_length", w, SetWindowLength(ctx.processor, w))
    /\ steps' = steps + 1
    /\ since' = Fresh
    /\ UNCHANGED <<twin, phase>>

\* get_processor()->reset()
ProcDoReset ==
    /\ phase = "single"
    /\ steps < MaxProcCalls
    /\ ProcCall("processor_reset", 0, ProcReset(ctx.processor))
    /\ steps' = steps + 1
    /\ since' = Fresh
    /\ UNCHANGED <<twin, phase>>

\* get_processor()->process_frame(samples)
ProcProcessFrame ==
    /\ phase = "single"
    /\ steps < MaxProcCalls
    /\ \E sig \in {1, 2}, count \in FrameSizes :
         LET samples == Downmix(StereoBlock(sig, count))
             r == ProcessFrame(ctx.processor, samples)
         IN  /\ ctx' = [ctx EXCEPT !.processor = r.proc]
             /\ last' = Call("process_frame",
                             [NoArg EXCEPT !.count = count, !.sig = sig],
                             [NoEffect(ctx) EXCEPT
                                 !.frames = IF r.out.n > 0 THEN <<r.out>>
                                            ELSE <<>>],
                             "out0", ctx)
             /\ since' = IF r.out.n > 0
                         THEN [since EXCEPT !.frames = @ + 1,
                                            !.fed = @ \o samples]
                         ELSE since
    /\ steps' = steps + 1
    /\ UNCHANGED <<twin, phase>>

NextProc ==
    \/ ProcSetHopLength \/ ProcSetWindowLength \/ ProcDoReset
    \/ ProcProcessFrame

SpecProc == Init /\ [][NextProc]_vars

----------------------------------------------------------------------------
(* The AudioProcessor's dimension setters, with arguments on both sides of
   the current values *)

SetterFftSizes == {2, 512, 2048}

SetterWindowLengths == {4, 400, 1024}

SetterHopLengths == {2, 160, 512}

\* get_processor()->set_fft_size(size)
SetterFftSize ==
    /\ phase = "single"
    /\ steps < MaxSetterCalls
    /\ \E n \in SetterFftSizes :
         ProcCall("set_fft_size", n, SetFftSize(ctx.processor, n))
    /\ steps' = steps + 1
    /\ UNCHANGED <<since, twin, phase>>

\* get_processor()->set_window_length(length)
SetterWindowLength ==
    /\ phase = "single"
    /\ steps < MaxSetterCalls
    /\ \E w \in SetterWindowLengths :
         ProcCall("set_window_length", w, SetWindowLength(ctx.processor, w))
    /\ steps' = steps + 1
    /\ UNCHANGED <<since, twin, phase>>

\* get_processor()->set_hop_length(length)
SetterHopLength ==
    /\ phase = "single"
    /\ steps < MaxSetterCalls
    /\ \E h \in SetterHopLengths :
         ProcCall("set_hop_length", h, SetHopLength(ctx.processor, h))
    /\ steps' = steps + 1
    /\ UNCHANGED <<since, twin, phase>>

NextSetters == SetterFftSize \/ SetterWindowLength \/ SetterHopLength

SpecSetters == Init /\ [][NextSetters]_vars

----------------------------------------------------------------------------
(* The Mel Filter Bank's weights, filter by filter *)

\* bin points in halves of a bin: 0, 0.5, 1, 1.5, 2
MelBinPositions == 0..4

\* n_fft / 2 + 1 for an FFT of 4 points
MelSpectra == (4 \div 2) + 1

\* init_mel_filter_bank, one pass of its outer loop: the row of a filter
\* whose bin points are left, center, right
MelBuildFilter ==
    /\ phase = "single"
    /\ steps < MaxMelCalls
    /\ \E left \in MelBinPositions, center \in MelBinPositions,
          right \in MelBinPositions :
         last' = [Call("init_mel_filter_bank", NoArg, NoEffect(ctx),
                       "out0", ctx)
                     EXCEPT !.arg = [left |-> left, center |-> center,
                                     right |-> right],
                            !.ret = MelFilterRow(left, center, right,
                                                 MelSpectra)]
    /\ steps' = steps + 1
    /\ UNCHANGED <<ctx, since, twin, phase>>

NextMel == MelBuildFilter

SpecMel == Init /\ [][NextMel]_vars

----------------------------------------------------------------------------
(* The FFT Engine on small power-of-two sizes *)

\* the powers of two whose twiddle factors are quarter turns
FftSizes == {1, 2, 4}

FftValues == {Complex(0, 0), Complex(1, 0), Complex(0, 1), Complex(-1, 0)}

\* get_processor()->set_fft_size(size)
FftSetSize ==
    /\ phase = "single"
    /\ steps < MaxFftCalls
    /\ \E n \in FftSizes :
         ProcCall("set_fft_size", n, SetFftSize(ctx.processor, n))
    /\ steps' = steps + 1
    /\ UNCHANGED <<since, twin, phase>>

\* perform_fft(data) on a buffer of n_fft values
FftPerform ==
    /\ phase = "single"
    /\ steps < MaxFftCalls
    /\ ctx.processor.n_fft \in FftSizes
    /\ \E input \in [1..ctx.processor.fft_input.size -> FftValues] :
         last' = [Call("perform_fft", NoArg, NoEffect(ctx), "out0", ctx)
                     EXCEPT !.arg = [input |-> AsSeq(input)],
                            !.ret = PerformFft(
                                AsSeq(input),
                                BitReverseTable(
                                    ctx.processor.bit_reverse_table.size),
                                TrigTables(
                                    2 * ctx.processor.trig_tables.size))]
    /\ steps' = steps + 1
    /\ UNCHANGED <<ctx, since, twin, phase>>

NextFft == FftSetSize \/ FftPerform

SpecFft == Init /\ [][NextFft]_vars

----------------------------------------------------------------------------
(* The OnnxModel alone: load_model and run_inference called directly *)

\* element counts of the inputs handed to run_inference
OnnxSizes == {0, 80, 120, 160, 240, 320}

OnnxOutcomes == {"throw", "out2"}

OnnxLoad == DoLoadModel(ModelPaths, MaxOnnxCalls)

\* model->run_inference(input)
OnnxRun ==
    /\ phase = "single"
    /\ steps < MaxOnnxCalls
    /\ ~ctx.model.is_null
    /\ \E size \in OnnxSizes :
         LET r == [NoEffect(ctx) EXCEPT
                      !.ret = [o \in RunOutcomes |->
                          RunInference(ctx.model, FlatInput(size), o).out],
                      !.ran = [o \in RunOutcomes |->
                          RunInference(ctx.model, FlatInput(size), o).ran],
                      !.tensors = <<FlatInput(size)>>]
         IN  \E outcome \in OutcomesFor(r, OnnxOutcomes) :
               last' = Call("run_inference", [NoArg EXCEPT !.count = size],
                            r, outcome, ctx)
    /\ steps' = steps + 1
    /\ UNCHANGED <<ctx, since, twin, phase>>

NextOnnx == OnnxLoad \/ OnnxRun

SpecOnnx == Init /\ [][NextOnnx]_vars

----------------------------------------------------------------------------
(* The prediction: every output size of the model against windows of one
   to three frames *)

SliceBlocks == {<<160, 16000>>, <<200, 16000>>, <<320, 16000>>}

SliceProcess == DoProcess({1}, SliceBlocks, RunOutcomes, MaxSliceSteps)

SliceLoadModel == DoLoadModel({"tcn.onnx"}, MaxSliceSteps)

NextSlice == SliceProcess \/ SliceLoadModel

SpecSlice == Init /\ [][NextSlice]_vars

----------------------------------------------------------------------------
(* Two runs: a used pipeline that is reset, and a fresh one, fed alike *)

TwinBlocks == {<<1, 8000>>, <<200, 16000>>}

\* the history of the used pipeline
TwinHistoryProcess == DoProcess({1}, TwinBlocks, {"out2"}, MaxTwinSteps - 1)

TwinHistoryLoad == DoLoadModel({"tcn.onnx"}, MaxTwinSteps - 1)

\* a freshly constructed pipeline with the configuration and model of C
FreshLike(C) ==
    [SetContextSize(LipSyncContextNew, C.context_size)
        EXCEPT !.model = C.model]

\* reset() on the used pipeline; the fresh one is constructed beside it
TwinReset ==
    /\ phase = "single"
    /\ steps < MaxTwinSteps
    /\ ctx' = Reset(ctx)
    /\ last' = Call("reset", NoArg, NoEffect(ctx), "out0", ctx)
    /\ since' = Fresh
    /\ twin' = [ctx |-> FreshLike(ctx), frames |-> <<>>, tensors |-> <<>>]
    /\ phase' = "lockstep"
    /\ steps' = steps + 1

\* the same process call on both pipelines; a read outside the block
\* yields a value of its own in each run
TwinProcess ==
    /\ phase = "lockstep"
    /\ steps < MaxTwinSteps
    /\ \E sig \in {1}, b \in TwinBlocks :
         LET block == StereoBlock(sig, b[1])
         IN  \E g1 \in GarbageFor(ctx, block, b[2]),
                g2 \in GarbageFor(twin.ctx, block, b[2]) :
               LET r1 == Process(ctx, block, b[2], g1, 0)
                   r2 == Process(twin.ctx, block, b[2], g2, 0)
               IN  /\ ctx' = r1.ctx
                   /\ twin' = [ctx |-> r2.ctx, frames |-> r2.frames,
                               tensors |-> r2.tensors]
                   /\ since' = Delivered(ctx, b[1], b[2], r1)
                   /\ last' = Call("process",
                                   [NoArg EXCEPT !.count = b[1],
                                                 !.rate = b[2], !.sig = sig],
                                   r1, "out2", ctx)
    /\ steps' = steps + 1
    /\ UNCHANGED phase

NextTwin ==
    TwinHistoryProcess \/ TwinHistoryLoad \/ TwinReset \/ TwinProcess

SpecTwin == Init /\ [][NextTwin]_vars

----------------------------------------------------------------------------
(* Claims checked under Spec *)

\* the transient state reset() clears, as it is right after a reset
Cleared(C) ==
    /\ C.audio_buffer = <<>>
    /\ C.feature_buffer = <<>>
    /\ C.processor.previous_samples =
           Zeros(Max(0, C.processor.window_length - C.processor.hop_length))
    /\ C.resample_fraction = 0

C1_WithinCapacity ==
    (last.op \in {"process", "set_context_size"} /\ ctx.context_size >= 0)
        => Len(ctx.feature_buffer) <= ctx.context_size

C1_TrimStep ==
    (/\ last'.op = "set_context_size"
     /\ last'.arg.k >= 0
     /\ Len(ctx.feature_buffer) > last'.arg.k)
        => ctx'.feature_buffer = LastK(ctx.feature_buffer, last'.arg.k)

C4_NoModelNoPrediction ==
    (last.op = "process" /\ ~last.pre_open)
        => (last.ret = <<>> /\ ~last.ran)

\* C4 witness: after a failed load_model, a process call produced a frame
\* and handed a tensor to run_inference
C4_FrameWithoutSession ==
    /\ last.op = "process"
    /\ ~last.pre_open
    /\ ~last.pre_null
    /\ Len(last.tensors) = 1

\* C7: a load_model call that succeeds returns true with the transient
\* state cleared, and every tensor handed to inference holds no more frames
\* than were produced since the last reset or successful load.
C7_LoadResets ==
    /\ (last.op = "load_model" /\ last.ret = <<TRUE>>)
           => (Cleared(ctx) /\ ctx.model.session.open)
    /\ \A i \in 1..Len(last.tensors) :
           last.tensors[i].n_frames <= since.frames

\* C7 witness: a successful load_model on a pipeline that held audio and
\* frames
C7_LoadedOverHistory ==
    /\ last.op = "load_model"
    /\ last.ret = <<TRUE>>
    /\ last.pre_features > 0
    /\ last.pre_audio > 0

C8_FailedLoadStep ==
    (last'.op = "load_model" /\ last'.ret = <<FALSE>>)
        => /\ ctx'.audio_buffer = ctx.audio_buffer
           /\ ctx'.feature_buffer = ctx.feature_buffer
           /\ ctx'.processor = ctx.processor
           /\ ctx'.resample_fraction = ctx.resample_fraction
           /\ ctx'.model.session = ctx.model.session

\* C8, as stated: a load_model call that fails leaves the buffers, the
\* overlap, the phase and the loaded model as they were.
C8_FailedLoadChangesNothing == [][C8_FailedLoadStep]_vars

----------------------------------------------------------------------------
(* Claims checked under SpecCfg *)

C5_ResetStep ==
    last'.op = "reset"
        => /\ Cleared(ctx')
           /\ ctx'.context_size = ctx.context_size
           /\ ProcConfig(ctx'.processor) = ProcConfig(ctx.processor)
           /\ ctx'.model = ctx.model

\* C5: reset, in any reachable state, leaves the Accumulation Buffer and
\* the Context Window empty, the overlap buffer all zeros with length
\* max(0, window_length - hop_length) and the phase 0, and leaves
\* context_size, the processor's configuration, its derived tables and the
\* model as they were.
C5_ResetClearsTransientOnly == [][C5_ResetStep]_vars

\* C5 witness: reset was called with a changed configuration on a pipeline
\* holding audio, frames, a non-zero overlap and a non-zero phase
C5_ResetOfDirtyPipeline ==
    /\ last.op = "reset"
    /\ last.pre_audio > 0
    /\ last.pre_features > 0
    /\ ~last.pre_overlap_zero
    /\ last.pre_fraction # 0
    /\ ProcConfig(ctx.processor) # ProcConfig(LipSyncContextNew.processor)
    /\ Cleared(ctx)

\* C13: every tensor handed to run_inference holds frame_count x n_mels
\* elements, n_mels being the processor's configured band count, and is
\* the frames of the Context Window, each complete, oldest first; no frame
\* is read past its own length.
C13_TensorMatchesWindow ==
    last.op = "process" =>
        \A t \in 1..Len(last.tensors) :
            LET tensor == last.tensors[t]
            IN  /\ tensor.n_frames = Len(ctx.feature_buffer)
                /\ TensorSize(tensor)
                       = Len(ctx.feature_buffer) * ctx.processor.n_mels
                /\ \A i \in 1..Len(tensor.rows) :
                       /\ tensor.rows[i].frame = ctx.feature_buffer[i]
                       /\ tensor.rows[i].frame.n = tensor.n_mels

\* C17: a process call hands at most one tensor to run_inference, built
\* after every available hop is consumed, and it does so exactly when the
\* call appended a Feature Frame and the Context Window is then non-empty;
\* a call that appends no frame runs no inference and returns absent.
C17_InferenceOncePerCall ==
    last.op = "process" =>
        /\ Len(last.tensors) <= 1
        /\ Len(last.tensors) = 1
               <=> (last.frames # <<>> /\ ctx.feature_buffer # <<>>)
        /\ \A t \in 1..Len(last.tensors) :
               /\ last.tensors[t].n_frames = Len(ctx.feature_buffer)
               /\ Len(ctx.audio_buffer) < SchedulerHop
        /\ last.frames = <<>>
               => (last.tensors = <<>> /\ ~last.ran /\ last.ret = <<>>)

\* a call that takes no hop while the Context Window holds a frame of an
\* earlier call
C17_NoHopOverHeldFrames ==
    /\ last.op = "process"
    /\ last.pre_open
    /\ last.pre_features > 0
    /\ last.hops = 0
    /\ ctx.feature_buffer # <<>>
    /\ last.tensors = <<>>
    /\ last.ret = <<>>

\* C19: while the capacity c >= 1 has not been set since the last reset,
\* the Context Window is the last min(k, c) of the k Feature Frames
\* produced since that reset, in the order of their production.
C19_FifoWindow ==
    (~since.resized /\ ctx.context_size >= 1) =>
        ctx.feature_buffer = LastK(since.made, ctx.context_size)

\* three different frames produced over two calls into a window of two
C19_OldestEvicted ==
    /\ ~since.resized
    /\ ctx.context_size = 2
    /\ Len(since.made) = 3
    /\ since.made[1] # since.made[2]
    /\ since.made[2] # since.made[3]
    /\ ctx.feature_buffer = <<since.made[2], since.made[3]>>

\* the tables and buffers of a processor have the sizes its configuration
\* asks for
DerivedSizesMatch(P) ==
    /\ P.window.size = P.window_length
    /\ Len(P.window_buffer) = P.window_length
    /\ P.bit_reverse_table.size = P.n_fft
    /\ P.fft_input.size = P.n_fft
    /\ P.trig_tables.size = P.n_fft \div 2
    /\ P.mel_filter_bank.size = P.n_mels * (P.n_fft \div 2 + 1)
    /\ Len(P.previous_samples) = Max(0, P.window_length - P.hop_length)

\* the names of the AudioProcessor setters
SetterNames == {call[1] : call \in SetterCalls}

\* C23: in every state the derived tables and buffers have the sizes the
\* current configuration asks for, and every setter call leaves the
\* overlap buffer zero-filled.
C23_DerivedStateMatchesConfig ==
    /\ DerivedSizesMatch(ctx.processor)
    /\ last.op \in SetterNames =>
           ctx.processor.previous_samples
               = Zeros(Len(ctx.processor.previous_samples))

\* C25: every hop-sized slice that process removes from the Accumulation
\* Buffer yields one Feature Frame, the slice length being the processor's
\* hop_length.
C25_EveryHopYieldsFrame ==
    last.op = "process" =>
        /\ Len(last.frames) = last.hops
        /\ last.hops > 0 => ctx.processor.hop_length = SchedulerHop

----------------------------------------------------------------------------
(* Claims checked under SpecHop *)

\* the stream since the last reset arrived at the target rate with a
\* model loaded
TargetRateStream ==
    since.rates \subseteq {TargetSampleRate} /\ ~since.unloaded

\* C2: with a model loaded, N samples delivered at the target rate since
\* the last reset, in blocks of any sizes, have produced floor(N / 160)
\* Feature Frames and left N mod 160 samples buffered; a process call
\* during which the buffer never reaches a hop produces no frame and
\* returns the absent prediction.
C2_HopCadence ==
    TargetRateStream =>
        /\ since.frames = since.samples \div SchedulerHop
        /\ Len(ctx.audio_buffer) = since.samples % SchedulerHop
        /\ (last.op = "process" /\ last.pre_audio + last.arg.count < SchedulerHop)
               => (last.frames = <<>> /\ last.ret = <<>> /\ ~last.ran)
        /\ (last.op = "process" /\ last.frames = <<>>) => last.ret = <<>>

\* two hops completed by blocks that straddle the boundaries, then a
\* block too small to complete a third
C2_ShortBlockAfterTwoHops ==
    /\ TargetRateStream
    /\ last.op = "process"
    /\ last.arg.count = 1
    /\ last.frames = <<>>
    /\ since.frames = 2
    /\ since.samples = 2 * SchedulerHop + 1
    /\ Len(ctx.audio_buffer) = 1

----------------------------------------------------------------------------
(* Claims checked under SpecResample *)

\* the stream since the last reset arrived at one rate, not the target
OneRateStream(rate) ==
    since.rates = {rate} /\ rate # TargetSampleRate

\* C3: for a stream at a rate other than the target, the number of
\* resampled samples produced since the last reset is the number one
\* block holding the whole stream produces, however the stream is split.
C3_SplitIndependent ==
    \A rate \in SourceRates :
        OneRateStream(rate) =>
            since.pushed = LoopIterations(0, since.samples, rate)

\* C10 as a step: a block at the target rate is appended unchanged and
\* leaves the resampling phase alone; an empty block changes nothing, at
\* any rate.
C10_PushStep ==
    last'.op = "_resample_and_push" =>
        LET input == Downmix(StereoBlock(last'.arg.sig, last'.arg.count))
        IN  /\ last'.arg.rate = TargetSampleRate =>
                /\ ctx'.audio_buffer = ctx.audio_buffer \o input
                /\ ctx'.resample_fraction = ctx.resample_fraction
                /\ ~last'.oob
            /\ last'.arg.count = 0 => ctx' = ctx

\* C10: at the target rate _resample_and_push appends the samples as they
\* are and keeps resample_fraction; with zero samples it is a no-op.
C10_PassthroughAndEmpty == [][C10_PushStep]_vars

\* a block at the target rate appended behind resampled audio, with a
\* phase carried from the earlier blocks
C10_PassthroughWithCarriedPhase ==
    /\ last.op = "_resample_and_push"
    /\ last.arg.rate = TargetSampleRate
    /\ last.arg.count > 1
    /\ last.pre_audio > 0
    /\ last.pre_fraction # 0
    /\ ctx.resample_fraction = last.pre_fraction
    /\ Len(ctx.audio_buffer) = last.pre_audio + last.arg.count

\* the difference between the samples appended since the last reset and
\* twice the samples delivered, as a distance
UpsampleError(pushed, samples) ==
    IF pushed >= 2 * samples THEN pushed - 2 * samples
    ELSE 2 * samples - pushed

\* C11: for a stream at 8000 Hz the number of samples appended stays within
\* a fixed distance of twice the number delivered, however many calls
\* deliver it: the distance never exceeds the one a single call holding
\* the whole stream leaves.
C11_UpsampleErrorBounded ==
    OneRateStream(8000) =>
        UpsampleError(since.pushed, since.samples)
            <= UpsampleError(LoopIterations(0, since.samples, 8000),
                             since.samples)

\* the last call was _resample_and_push on a non-empty block at a rate
\* other than the target
ResampledCall ==
    /\ last.op = "_resample_and_push"
    /\ last.arg.rate # TargetSampleRate
    /\ last.arg.count >= 1

\* C21: after every _resample_and_push call on the resampling path the
\* carried phase f satisfies 0 <= f < ratio (the phase is held times
\* TargetSampleRate, where ratio is the source rate).
C21_PhaseInRange ==
    ResampledCall =>
        /\ 0 <= ctx.resample_fraction
        /\ ctx.resample_fraction < last.arg.rate

\* resample_fraction = current_pos - count, before the guard: the cursor
\* the while loop ends on, less the block size
CursorLessCount ==
    ResampleLoop(Downmix(StereoBlock(last.arg.sig, last.arg.count)),
                 last.pre_fraction, last.arg.rate, 0).pos
        - last.arg.count * TargetSampleRate

\* C22: at the end of every _resample_and_push call on the resampling path
\* cursor - count is not negative, so the branch that adds ratio to the
\* carried phase is never taken.
C22_GuardNeverTaken ==
    ResampledCall => CursorLessCount >= 0

\* C24: in every _resample_and_push call both samples read for an
\* interpolation lie inside the block: 0 <= idx and idx + 1 <= count - 1.
C24_ReadsInsideBlock ==
    last.op = "_resample_and_push" => ~last.oob

----------------------------------------------------------------------------
(* Claims checked under SpecProc *)

\* C9 as a step: process_frame on a block whose size is not hop_length
\* returns the empty frame and leaves the processor as it was.
C9_RejectStep ==
    (last'.op = "process_frame"
        /\ last'.arg.count # ctx.processor.hop_length) =>
            /\ last'.frames = <<>>
            /\ ctx'.processor = ctx.processor

\* C9: a wrongly sized process_frame call returns the empty Feature Frame
\* and changes neither the overlap memory nor anything else of the
\* processor, so the next call sees the state the rejected call found.
C9_RejectedFrameChangesNothing == [][C9_RejectStep]_vars

\* a wrongly sized block rejected while the overlap memory holds audio
C9_RejectedOverLiveOverlap ==
    /\ last.op = "process_frame"
    /\ last.arg.count # ctx.processor.hop_length
    /\ last.frames = <<>>
    /\ ~last.pre_overlap_zero
    /\ \E i \in 1..Len(ctx.processor.previous_samples) :
           ctx.processor.previous_samples[i] # 0

\* C20: with hop_length <= window_length, the window buffer of the k-th
\* successful process_frame call since reset is the last window_length
\* samples of (window_length - hop_length) zeros followed by hops 1..k, and
\* the overlap buffer after the call is the last
\* (window_length - hop_length) samples of that window buffer.
C20_OverlapCarry ==
    (last.op = "process_frame" /\ last.frames # <<>>
        /\ ctx.processor.hop_length <= ctx.processor.window_length) =>
            LET P == ctx.processor
                overlap_len == P.window_length - P.hop_length
                stream == Zeros(overlap_len) \o since.fed
            IN  /\ Len(since.fed) = since.frames * P.hop_length
                /\ last.frames[1].win = LastK(stream, P.window_length)
                /\ P.previous_samples = LastK(last.frames[1].win, overlap_len)

\* the second of two different hops, shorter than the window that holds
\* them both
C20_SecondHopOverFirst ==
    /\ last.op = "process_frame"
    /\ last.frames # <<>>
    /\ since.frames = 2
    /\ ctx.processor.hop_length < ctx.processor.window_length
    /\ SubSeq(since.fed, 1, ctx.processor.hop_length)
           # From(since.fed, ctx.processor.hop_length + 1)
    /\ last.frames[1].win = since.fed
    /\ ctx.processor.previous_samples
           = From(since.fed, ctx.processor.hop_length + 1)

----------------------------------------------------------------------------
(* Claims checked under SpecTwin *)

\* C6: after reset(), every process call yields the Feature Frames and
\* the inference inputs that a freshly constructed pipeline with the same
\* configuration yields for the same calls.
C6_ResetEqualsFresh ==
    (phase = "lockstep" /\ last.op = "process") =>
        /\ last.frames = twin.frames
        /\ last.tensors = twin.tensors

----------------------------------------------------------------------------
(* Claims checked under SpecSetters *)

\* process_frame, step 2: the loop over window_length positions of
\* fft_input runs past the end of the n_fft-sized vector
WindowOverrunsFft(P) == P.window_length > P.fft_input.size

\* C12: in every state reached by setter calls, window_length <= n_fft and
\* hop_length <= window_length, and the FFT input holds the whole window.
C12_ConfigInvariant ==
    /\ ctx.processor.window_length <= ctx.processor.n_fft
    /\ ctx.processor.hop_length <= ctx.processor.window_length
    /\ ~WindowOverrunsFft(ctx.processor)

----------------------------------------------------------------------------
(* Claims checked under SpecMel *)

\* C14: no weight of a filter row is NaN and none is negative, also when
\* the left and center (or center and right) bin points coincide; on a
\* zero-width side the weight is 0.
C14_NoNaNWeight ==
    last.op = "init_mel_filter_bank" =>
        \A j1 \in 1..Len(last.ret) :
            LET w == last.ret[j1]
            IN  /\ ~w.nan
                /\ w.num >= 0
                /\ (last.arg.left = last.arg.center
                      /\ 2 * (j1 - 1) = last.arg.left) => w = ZeroWeight

----------------------------------------------------------------------------
(* Claims checked under SpecFft *)

RECURSIVE DftSum(_, _, _)
\* sum over t < upto of input[t] * exp(-2 pi i k t / n), n = Len(input)
DftSum(input, k, upto) ==
    IF upto = 0 THEN Complex(0, 0)
    ELSE CAdd(DftSum(input, k, upto - 1),
              CMul(input[upto],
                   QuarterTurn((4 * k * (upto - 1)) \div Len(input))))

\* the discrete Fourier transform of input by its definition
ReferenceDft(input) ==
    AsSeq([k1 \in 1..Len(input) |-> DftSum(input, k1 - 1, Len(input))])

\* C15: perform_fft on a buffer of n_fft values, n_fft a power of two,
\* leaves the discrete Fourier transform of the buffer.
C15_FftIsDft ==
    last.op = "perform_fft" => last.ret = ReferenceDft(last.arg.input)

\* four ones transformed: 4 in bin 0, 0 in the other bins
C15_AllOnes ==
    /\ last.op = "perform_fft"
    /\ last.arg.input = AsSeq([t \in 1..4 |-> Complex(1, 0)])
    /\ last.ret = <<Complex(4, 0), Complex(0, 0), Complex(0, 0),
                    Complex(0, 0)>>

----------------------------------------------------------------------------
(* Claims checked under SpecOnnx *)

RECURSIVE Product(_)
\* the product of the elements of a sequence of integers
Product(dims) == IF dims = <<>> THEN 1 ELSE Head(dims) * Product(Tail(dims))

IsStatic(d) == d >= 0

\* C16: run_inference returns empty without executing the model when no
\* session is loaded, when the shape has a dynamic dimension and the
\* element count is not a multiple of the product of the static
\* dimensions, or when the shape is fixed and the count differs from that
\* product; otherwise it executes the model on a shape without dynamic
\* dimensions whose product is the element count.
C16_ShapeGate ==
    last.op = "run_inference" =>
        LET shape == ctx.model.session.input_shape
            size == last.arg.count
            static == Product(SelectSeq(shape, IsStatic))
            dynamic == \E i \in 1..Len(shape) : shape[i] < 0
            rejected == \/ ~ctx.model.session.open
                        \/ dynamic /\ size % static # 0
                        \/ ~dynamic /\ size # static
        IN  /\ rejected => (last.ret = <<>> /\ ~last.ran)
            /\ ~rejected =>
                   /\ last.ran
                   /\ \A i \in 1..Len(shape) :
                          ResolvedShape(shape, size)[i] >= 0
                   /\ Product(ResolvedShape(shape, size)) = size

\* the model with two dynamic dimensions executed on two frames
C16_TwoDynamicResolved ==
    /\ last.op = "run_inference"
    /\ last.ran
    /\ last.arg.count = 160
    /\ ctx.model.session.input_shape = <<-1, -1, SchedulerMels>>
    /\ ResolvedShape(ctx.model.session.input_shape, 160)
           = <<2, 1, SchedulerMels>>

----------------------------------------------------------------------------
(* Claims checked under SpecSlice *)

\* C18: when inference answers a tensor of T frames with S > 0 elements,
\* process returns the W = S div T elements (T-1)*W .. T*W - 1 of the
\* output (element e of the output is held as e + 1), all of them inside
\* the output; when inference answers nothing, process returns absent.
C18_LastTimestep ==
    (last.op = "process" /\ last.tensors # <<>>) =>
        LET T == last.tensors[1].n_frames
            S == IF last.ran THEN OutputSize(last.outcome) ELSE 0
            W == S \div T
        IN  IF S > 0
            THEN /\ Len(last.ret) = W
                 /\ \A i \in 1..W :
                        /\ last.ret[i] = (T - 1) * W + (i - 1) + 1
                        /\ last.ret[i] \in 1..S
            ELSE last.ret = <<>>

\* five output elements for a window of two frames: the slice is elements
\* 2 and 3, and element 4 belongs to no timestep
C18_UnevenOutput ==
    /\ last.op = "process"
    /\ last.ran
    /\ last.outcome = "out5"
    /\ Len(last.tensors) = 1
    /\ last.tensors[1].n_frames = 2
    /\ last.ret = <<3, 4>>

====
